---- MODULE Spec2Model ----
(***************************************************************************)
(* Model of juniper's selection-set resolution (src/juniper/src/types/     *)
(* base.rs): Arguments::new, GraphQLValue::resolve / resolve_into_type,    *)
(* resolve_selection_set_into, is_excluded and merge_key_into.             *)
(*                                                                         *)
(* The walk of resolve_selection_set_into is modelled as a stack machine:  *)
(* one frame per active call of resolve_selection_set_into, one action per *)
(* selection the `for` loop meets.  The selections of the document and the *)
(* answers of the user-supplied resolvers are the inputs; they are drawn   *)
(* with \E as the walk reaches them, in document order.                    *)
(***************************************************************************)
EXTENDS Naturals, Sequences, FiniteSets

\* ------------------------------------------------------------------ bounds
\* Selections met in one execution (source positions 1..MaxSel).
MaxSel == 4
\* Nested calls of resolve_selection_set_into that are active at once.
MaxDepth == 3
\* Directives attached to one selection.
MaxDirs == 2
\* Arguments supplied to / declared for one field.
MaxArgs == 2

\* ------------------------------------------------------------------ values
\* Value<S>: Null | Scalar | Object (ordered list of key/value pairs).
Null == [t |-> "null", s |-> "", fields |-> <<>>]
Scalar(s) == [t |-> "scalar", s |-> s, fields |-> <<>>]
ObjectValue(fields) == [t |-> "object", s |-> "", fields |-> fields]

\* Scalars a field resolver may answer with.
Scalars == {"s1"}

\* ------------------------------------------------------------------ schema
\* executor.schema().concrete_type_by_name: the registered types.  "V" is a
\* type name an instance may report that the registry does not hold.
RegisteredTypes == {"T", "U"}
TypeNames == {"T", "U", "V"}
\* The root instance reports T or V; the child objects field resolvers hand
\* to the executor are U's.
RootTypes == {"T", "V"}
ChildTypes == {"U"}

\* meta_type.field_by_name: the fields every registered type declares; a is
\* nullable, b is non-null.
MetaFields == {"a", "b"}
\* Field names a query may use; "zz" is declared by no type.
FieldNames == {"a", "b", "__typename", "zz"}

\* meta_field.field_type.is_non_null()
is_non_null(name) == name = "b"

\* executor.fragment_by_name: the fragment table (name -> type condition);
\* "H" is spread by queries but defined nowhere.
FragmentTable == [F |-> "T", G |-> "U"]
FragmentNames == {"F", "G", "H"}
\* The fragments the walked document spreads.
SpreadNames == {"F", "H"}

\* f.alias: "" stands for no alias.
NoAlias == ""
Aliases == {NoAlias, "a"}

\* ------------------------------------------------------------- directives
\* A directive: its name and its `if` argument after into_const(vars):
\* "true"/"false" booleans, "int" a non-boolean value, "absent" no argument.
DirectiveNames == {"skip", "include", "other"}
IfValues == {"true", "false", "int", "absent"}
Directive == [name : DirectiveNames, if : IfValues]

SeqsUpTo(S, n) == UNION {[1..k -> S] : k \in 0..n}

DirectiveLists == SeqsUpTo(Directive, MaxDirs)

\* The directive lists the selections of the walk carry: none, one that
\* excludes, and a skip without its argument.
WalkDirectives ==
    { <<>>,
      <<[name |-> "include", if |-> "false"]>>,
      <<[name |-> "skip", if |-> "absent"]>> }

\* directive.arguments...get("if")...convert::<bool>().next().unwrap():
\* the condition, or "panic" when unwrap() meets None.
condition(directive) ==
    IF directive.if \in {"true", "false"} THEN directive.if ELSE "panic"

\* The loop of is_excluded from directive i on.
RECURSIVE is_excluded_from(_, _)
is_excluded_from(directives, i) ==
    IF i > Len(directives) THEN "false"
    ELSE LET directive == directives[i]
             cond == condition(directive)
         IN  IF cond = "panic" THEN "panic"
             ELSE IF \/ (directive.name = "skip" /\ cond = "true")
                     \/ (directive.name = "include" /\ cond = "false")
                  THEN "true"
                  ELSE is_excluded_from(directives, i + 1)

\* is_excluded(directives, vars): "true", "false", or "panic".
is_excluded(directives) == is_excluded_from(directives, 1)

\* -------------------------------------------------------------- arguments
\* InputValue<S>: Null or a non-null literal.
InputValues == {"null", "5"}
\* Argument::default_value: None, or Some(value).
NoDefault == "none"
DefaultValues == {NoDefault, "null", "10"}
ArgumentNames == {"limit", "offset", "first"}

\* Sequences over S of length at most n whose keys (by key(_)) are distinct.
Distinct(seq, key(_)) ==
    \A i, j \in DOMAIN seq : key(seq[i]) = key(seq[j]) => i = j
EntryKey(e) == e.k
ArgumentKey(a) == a.name

\* Option<IndexMap<&str, InputValue>>: the supplied arguments.
SuppliedMaps ==
    {m \in SeqsUpTo([k : ArgumentNames, v : InputValues], MaxArgs) :
        Distinct(m, EntryKey)}
None == [some |-> FALSE, map |-> <<>>]
Some(m) == [some |-> TRUE, map |-> m]
SuppliedArguments == {None} \cup {Some(m) : m \in SuppliedMaps}

\* Option<Vec<Argument>>: the arguments the field's metadata declares.
DeclaredLists ==
    {l \in SeqsUpTo([name : ArgumentNames, default_value : DefaultValues],
                     MaxArgs) : Distinct(l, ArgumentKey)}
DeclaredArguments == {None} \cup {Some(l) : l \in DeclaredLists}

contains_key(map, k) == \E i \in DOMAIN map : map[i].k = k
\* args[k]
get(map, k) == (CHOOSE e \in {map[i] : i \in DOMAIN map} : e.k = k).v
\* IndexMap::insert: replace the value of key k in place, else append.
insert(map, k, v) ==
    IF contains_key(map, k)
    THEN [i \in DOMAIN map |->
            IF map[i].k = k THEN [k |-> k, v |-> v] ELSE map[i]]
    ELSE Append(map, [k |-> k, v |-> v])

\* A variant of the loop body without the `|| args[..].is_null()` test: a
\* supplied Null is kept.
fill_default_when_missing(map, arg) ==
    IF ~contains_key(map, arg.name)
    THEN IF arg.default_value # NoDefault
         THEN insert(map, arg.name, arg.default_value)
         ELSE map
    ELSE map

\* The body of `for arg in meta_args`.
fill_default(map, arg) ==
    IF ~contains_key(map, arg.name) \/ get(map, arg.name) = "null"
    THEN IF arg.default_value # NoDefault
         THEN insert(map, arg.name, arg.default_value)
         ELSE map
    ELSE map

RECURSIVE fill_defaults(_, _, _)
fill_defaults(map, meta_args, i) ==
    IF i > Len(meta_args) THEN map
    ELSE fill_defaults(fill_default(map, meta_args[i]), meta_args, i + 1)

\* Arguments::new(args, meta_args).
Arguments_new(args, meta_args) ==
    LET args1 == IF meta_args.some /\ ~args.some THEN Some(<<>>) ELSE args IN
    IF args1.some /\ meta_args.some
    THEN Some(fill_defaults(args1.map, meta_args.map, 1))
    ELSE args1

\* ---------------------------------------------------------- result object
\* Object::add_field: overwrite the entry of key k in place, else append.
add_field(result, k, v) ==
    IF \E i \in DOMAIN result : result[i].k = k
    THEN [i \in DOMAIN result |->
            IF result[i].k = k THEN [k |-> k, v |-> v] ELSE result[i]]
    ELSE Append(result, [k |-> k, v |-> v])

\* A variant of merge_key_into that keeps the value already under the key.
merge_key_kept(result, response_name, value) ==
    IF \E i \in DOMAIN result : result[i].k = response_name THEN result
    ELSE Append(result, [k |-> response_name, v |-> value])

merge_key_into(result, response_name, value) ==
    add_field(result, response_name, value)

\* A variant of the fragment merge that stops after the first entry.
merge_first_entry_into(result, object, i) ==
    IF i > Len(object) THEN result
    ELSE merge_key_into(result, object[i].k, object[i].v)

\* `for (k, v) in object { merge_key_into(result, &k, v) }` from entry i on.
RECURSIVE merge_object_into(_, _, _)
merge_object_into(result, object, i) ==
    IF i > Len(object) THEN result
    ELSE merge_object_into(
            merge_key_into(result, object[i].k, object[i].v), object, i + 1)


\* ------------------------------------------------------------------- state
VARIABLES
    stack,      \* the active calls of resolve_selection_set_into, outermost first
    errors,     \* the executor's error sink: what push_error_at appended
    pos,        \* source position of the last selection the walk met
    status,     \* "idle", "walking", "done" (the root resolve returned),
                \* "panicked"; "call"/"returned" around a call of a helper
    final,      \* what the root call of resolve returned
    err_calls,  \* history: how many calls of resolve_field and of
                \* resolve_into_type returned Err so far
    last,       \* history: the selection just processed and what returned
    call        \* a call of is_excluded or Arguments::new: inputs and result

vars == <<stack, errors, pos, status, final, err_calls, last, call>>

NoValue == [t |-> "none", s |-> "", fields |-> <<>>]

\* One call of resolve_selection_set_into.  kind says who made it:
\*   "root"   GraphQLValue::resolve for the whole query,
\*   "field"  GraphQLValue::resolve of the child object a field resolver
\*            handed to the executor (response_name/non_null: that field),
\*   "typed"  GraphQLValue::resolve behind resolve_into_type (a fragment
\*            spread or an inline fragment with a type condition),
\*   "inline" the direct recursion of an inline fragment without type
\*            condition, which writes into the caller's result.
\* type is the instance's concrete type, result the `result` object, seen
\* the response names the call has met so far, in first-met order.
Frame(kind, type, result, seen, response_name, non_null) ==
    [kind |-> kind, type |-> type, result |-> result, seen |-> seen,
     response_name |-> response_name, non_null |-> non_null]

Top == stack[Len(stack)]
Below(stk) == SubSeq(stk, 1, Len(stk) - 1)
WithTop(stk, fr) == [stk EXCEPT ![Len(stk)] = fr]

\* seen, extended by the names of more that it does not hold yet.
RECURSIVE note_seen(_, _, _)
note_seen(seen, more, i) ==
    IF i > Len(more) THEN seen
    ELSE note_seen(
            IF \E j \in DOMAIN seen : seen[j] = more[i] THEN seen
            ELSE Append(seen, more[i]),
            more, i + 1)

\* The outcome of a step: the new stack, the root's value once it returned,
\* and the calls that returned during the step (innermost first).
Outcome(stk, value, rets) == [stack |-> stk, final |-> value, rets |-> rets]
Returned(fr, ret, value) ==
    [kind |-> fr.kind, ret |-> ret, value |-> value.t,
     response_name |-> fr.response_name, non_null |-> fr.non_null,
     keys |-> IF ret = "true" THEN [i \in DOMAIN fr.result |-> fr.result[i].k]
              ELSE <<>>,
     seen |-> IF ret = "true" THEN fr.seen ELSE <<>>]

RECURSIVE return_false(_, _)
RECURSIVE deliver(_, _, _, _)

\* The caller's handling of what GraphQLValue::resolve returned for frame fr
\* (already popped; stk is the caller's stack).
deliver(stk, fr, value, rets) ==
    IF fr.kind = "root" THEN Outcome(stk, value, rets)
    ELSE LET caller == stk[Len(stk)] IN
      IF fr.kind = "field"
      THEN \* match field_result { Ok(Null) if non-null => return false,
           \*                      Ok(v) => merge_key_into(...) }
           IF value = Null /\ fr.non_null
           THEN return_false(stk, rets)
           ELSE Outcome(
                  WithTop(stk, [caller EXCEPT !.result =
                      merge_key_into(caller.result, fr.response_name, value)]),
                  NoValue, rets)
      ELSE \* "typed": if let Ok(Value::Object(object)) = sub_result { merge }
           Outcome(
             WithTop(stk, [caller EXCEPT
                !.result = IF value.t = "object"
                           THEN merge_object_into(caller.result, value.fields, 1)
                           ELSE caller.result,
                !.seen = note_seen(caller.seen, fr.seen, 1)]),
             NoValue, rets)

\* A variant of the false return without the `return false` of the inline
\* fragment arm: the caller goes on with what the fragment wrote.
return_false_dropped(stk, rets) ==
    LET fr == stk[Len(stk)] IN
    IF fr.kind = "inline"
    THEN LET caller == stk[Len(stk) - 1] IN
         Outcome(
           WithTop(Below(stk), [caller EXCEPT !.result = fr.result,
                                              !.seen = fr.seen]),
           NoValue, Append(rets, Returned(fr, "false", NoValue)))
    ELSE deliver(Below(stk), fr, Null,
                 Append(rets, Returned(fr, "false", Null)))

\* resolve_selection_set_into returns false in the top frame of stk.
return_false(stk, rets) ==
    LET fr == stk[Len(stk)] IN
    IF fr.kind = "inline"
    THEN \* else if !resolve_selection_set_into(...) { return false; }
         return_false(Below(stk), Append(rets, Returned(fr, "false", NoValue)))
    ELSE \* GraphQLValue::resolve: Ok(Value::null())
         deliver(Below(stk), fr, Null,
                 Append(rets, Returned(fr, "false", Null)))

\* resolve_selection_set_into returns true in the top frame of stk.
return_true(stk) ==
    LET fr == stk[Len(stk)] IN
    IF fr.kind = "inline"
    THEN LET caller == stk[Len(stk) - 1] IN
         Outcome(
           WithTop(Below(stk), [caller EXCEPT !.result = fr.result,
                                              !.seen = fr.seen]),
           NoValue, <<Returned(fr, "true", NoValue)>>)
    ELSE \* GraphQLValue::resolve: Ok(Value::Object(res))
         deliver(Below(stk), fr, ObjectValue(fr.result),
                 <<Returned(fr, "true", ObjectValue(fr.result))>>)


\* ----------------------------------------------------------------- actions
\* What instance.resolve_field may answer: Err, Ok(Null), Ok(scalar), or,
\* for a field with a selection set, the resolver hands a child object to the
\* executor (GraphQLValue::resolve of the child with the field's selection
\* set): the answer then names the child's type.
FieldAnswers == {"err", "null"} \cup Scalars \cup ChildTypes

\* What resolve_into_type may do when the type condition matches: the default
\* body (delegate to resolve), or an interface's/union's own body failing.
IntoAnswers == {"resolve", "err"}

NoCondition == ""
TypeConditions == {NoCondition, "T", "U"}

\* The history record of a step: the selection (op: "field", "spread",
\* "inline"; "end" for the end of a selection set) with the field's, the
\* fragment's or the type condition's name, what is_excluded answered, the
\* field's response name and its resolver's answer (once the resolver ran;
\* "" before), and the calls that returned.
Event(op, name, excluded) ==
    [op |-> op, name |-> name, excluded |-> excluded,
     response_name |-> "", out |-> "", rets |-> <<>>]

\* A variant of Panic in which the violation is passed over: the selection
\* is skipped and the walk goes on.
Panic_passed_over(ev) ==
    /\ last' = ev
    /\ UNCHANGED <<stack, status, errors, final, err_calls, call>>

\* A panic (expect/unwrap/panic!) unwinds every active call: their result
\* objects are dropped and nothing returns.
Panic(ev) ==
    /\ status' = "panicked"
    /\ stack' = <<>>
    /\ last' = ev
    /\ UNCHANGED <<errors, final, err_calls, call>>

\* The walk goes on (or the root returned) with outcome o.
Continue(o, errs, calls, ev) ==
    /\ stack' = o.stack
    /\ final' = o.final
    /\ status' = IF o.stack = <<>> THEN "done" ELSE "walking"
    /\ errors' = errs
    /\ err_calls' = calls
    /\ last' = [ev EXCEPT !.rets = o.rets]
    /\ UNCHANGED call

\* A variant of Error that takes the position before the selection's
\* (the enclosing set's rather than the selection's own start_pos).
Error_before(at, from) == [pos |-> at - 1, from |-> from]

\* A recorded error: the error value (named by the call it came from) and
\* the source position it was recorded at.
Error(at, from) == [pos |-> at, from |-> from]

\* A variant of push_error_at on a sink that starts empty for each error:
\* the errors recorded earlier are lost.
push_error_alone(errs, at, from) == <<Error(at, from)>>

\* A variant of push_error_at that records the error twice.
push_error_twice(errs, at, from) ==
    Append(Append(errs, Error(at, from)), Error(at, from))

\* sub_exec.push_error_at(e, start_pos) on the sink errs.
push_error_at(errs, at, from) == Append(errs, Error(at, from))
\* err_calls after one more call of fn returned Err.
Failed(fn) == [err_calls EXCEPT ![fn] = @ + 1]

\* GraphQLValue::resolve is called on the root instance with the query's
\* selection set: resolve_selection_set_into looks the type up and starts.
Resolve(type) ==
    /\ status = "idle"
    /\ IF type \notin RegisteredTypes
       THEN Panic(Event("resolve", type, "false"))
       ELSE /\ stack' = <<Frame("root", type, <<>>, <<>>, "", FALSE)>>
            /\ status' = "walking"
            /\ last' = Event("resolve", type, "false")
            /\ UNCHANGED <<errors, final, err_calls, call>>
    /\ UNCHANGED pos

\* The selections of the walked document, by variant, each with the name
\* it carries: a field's name, a spread's fragment, an inline fragment's
\* type condition.
Selections ==
    ({"field"} \X FieldNames) \cup ({"spread"} \X SpreadNames)
        \cup ({"inline"} \X TypeConditions)

\* `if is_excluded(&f.directives, executor.variables()) { continue; }`, the
\* first statement of all three arms: the selection is skipped, or the
\* directive's unwrap() panics.
DirectiveCheck(selection, directives) ==
    /\ status = "walking"
    /\ pos < MaxSel
    /\ is_excluded(directives) # "false"
    /\ pos' = pos + 1
    /\ LET ev == Event(selection[1], selection[2], is_excluded(directives)) IN
       IF is_excluded(directives) = "panic" THEN Panic(ev)
       ELSE Continue(Outcome(stack, NoValue, <<>>), errors, err_calls, ev)

\* Selection::Field on __typename: answered without metadata or resolver.
TypenameField(alias, directives) ==
    /\ status = "walking"
    /\ pos < MaxSel
    /\ is_excluded(directives) = "false"
    /\ pos' = pos + 1
    /\ LET name == "__typename"
           response_name == IF alias # NoAlias THEN alias ELSE name
           met == [Top EXCEPT
                     !.seen = note_seen(Top.seen, <<response_name>>, 1),
                     !.result = add_field(Top.result, response_name,
                                          Scalar(Top.type))]
       IN Continue(Outcome(WithTop(stack, met), NoValue, <<>>),
                   errors, err_calls,
                   [Event("field", name, "false") EXCEPT
                       !.response_name = response_name])

\* Selection::Field on a name the concrete type has no metadata for.
UnknownField(name, directives) ==
    /\ status = "walking"
    /\ pos < MaxSel
    /\ is_excluded(directives) = "false"
    /\ name \notin MetaFields \cup {"__typename"}
    /\ pos' = pos + 1
    /\ Panic(Event("field", name, "false"))

\* Selection::Field on a declared field: metadata, arguments, sub-executor,
\* resolve_field, and the match on its result.
FieldSelection(name, alias, directives, out) ==
    /\ status = "walking"
    /\ pos < MaxSel
    /\ is_excluded(directives) = "false"
    /\ name \in MetaFields
    /\ out \in ChildTypes => Len(stack) < MaxDepth
    /\ pos' = pos + 1
    /\ LET response_name == IF alias # NoAlias THEN alias ELSE name
           ev == [Event("field", name, "false") EXCEPT
                     !.response_name = response_name, !.out = out]
           met == [Top EXCEPT !.seen = note_seen(Top.seen, <<response_name>>, 1)]
           stk == WithTop(stack, met)
           merged(v) ==
               Outcome(WithTop(stk, [met EXCEPT !.result =
                          merge_key_into(met.result, response_name, v)]),
                       NoValue, <<>>)
           added(v) ==
               Outcome(WithTop(stk, [met EXCEPT !.result =
                          add_field(met.result, response_name, v)]),
                       NoValue, <<>>)
       IN
       IF out = "err"
       THEN LET errs == push_error_at(errors, pos + 1, "resolve_field") IN
            IF is_non_null(name)
            THEN Continue(return_false(stk, <<>>), errs, Failed("resolve_field"), ev)
            ELSE Continue(added(Null), errs, Failed("resolve_field"), ev)
       ELSE IF out = "null"
            THEN IF is_non_null(name)
                 THEN Continue(return_false(stk, <<>>), errors, err_calls, ev)
                 ELSE Continue(merged(Null), errors, err_calls, ev)
       ELSE IF out \in ChildTypes
            THEN \* the resolver calls GraphQLValue::resolve on the child
                 Continue(
                   Outcome(Append(stk, Frame("field", out, <<>>, <<>>,
                                    response_name, is_non_null(name))),
                           NoValue, <<>>),
                   errors, err_calls, ev)
       ELSE Continue(merged(Scalar(out)), errors, err_calls, ev)

\* The body shared by a fragment spread and an inline fragment with a type
\* condition: concrete_type_name, resolve_into_type, merge or push_error_at.
TypedFragment(type_condition, into, ev) ==
    IF type_condition = Top.type
    THEN IF into = "err"
         THEN Continue(Outcome(stack, NoValue, <<>>),
                       push_error_at(errors, pos + 1, "resolve_into_type"),
                       Failed("resolve_into_type"), [ev EXCEPT !.out = into])
         ELSE \* resolve_into_type's default body: self.resolve(...)
              Continue(
                Outcome(Append(stack, Frame("typed", Top.type, <<>>, <<>>,
                                            "", FALSE)),
                        NoValue, <<>>),
                errors, err_calls, [ev EXCEPT !.out = into])
    ELSE Continue(Outcome(stack, NoValue, <<>>), errors, err_calls, ev)

\* Selection::FragmentSpread.
FragmentSpread(fragment_name, directives, into) ==
    /\ status = "walking"
    /\ pos < MaxSel
    /\ is_excluded(directives) = "false"
    /\ Len(stack) < MaxDepth
    /\ pos' = pos + 1
    /\ LET ev == Event("spread", fragment_name, "false") IN
       IF fragment_name \notin DOMAIN FragmentTable THEN Panic(ev)
       ELSE TypedFragment(FragmentTable[fragment_name], into, ev)

\* Selection::InlineFragment.
InlineFragment(type_condition, directives, into) ==
    /\ status = "walking"
    /\ pos < MaxSel
    /\ is_excluded(directives) = "false"
    /\ Len(stack) < MaxDepth
    /\ pos' = pos + 1
    /\ LET ev == Event("inline", type_condition, "false") IN
       IF type_condition # NoCondition
       THEN TypedFragment(type_condition, into, ev)
       ELSE Continue(
              Outcome(Append(stack, Frame("inline", Top.type, Top.result,
                                          Top.seen, "", FALSE)),
                      NoValue, <<>>),
              errors, err_calls, [ev EXCEPT !.out = "resolve"])

\* The loop is over: resolve_selection_set_into returns true.
EndOfSelectionSet ==
    /\ status = "walking"
    /\ Continue(return_true(stack), errors, err_calls,
                Event("end", "", "false"))
    /\ UNCHANGED pos

\* A call of a helper on its own: fn names it, directives / args /
\* meta_args are its inputs, result what it returned ("" before it ran).
NoCall ==
    [fn |-> "", directives |-> <<>>, args |-> None, meta_args |-> None,
     excluded |-> "", result |-> None]

\* is_excluded(directives, vars) is called.
CallIsExcluded ==
    /\ status = "call"
    /\ call.fn = "is_excluded"
    /\ call' = [call EXCEPT !.excluded = is_excluded(call.directives)]
    /\ status' = "returned"
    /\ UNCHANGED <<stack, errors, pos, final, err_calls, last>>

\* Arguments::new(args, meta_args) is called.
CallArgumentsNew ==
    /\ status = "call"
    /\ call.fn = "Arguments::new"
    /\ call' = [call EXCEPT !.result = Arguments_new(call.args, call.meta_args)]
    /\ status' = "returned"
    /\ UNCHANGED <<stack, errors, pos, final, err_calls, last>>

\* An execution: a query about to be resolved, or one helper about to be
\* called on inputs of its own.
Init ==
    /\ stack = <<>>
    /\ errors = <<>>
    /\ pos = 0
    /\ final = NoValue
    /\ err_calls = [resolve_field |-> 0, resolve_into_type |-> 0]
    /\ last = Event("init", "", "false")
    /\ \/ status = "idle" /\ call = NoCall
       \/ /\ status = "call"
          /\ \E directives \in DirectiveLists :
                call = [NoCall EXCEPT !.fn = "is_excluded",
                                      !.directives = directives]
       \/ /\ status = "call"
          /\ \E args \in SuppliedArguments, meta_args \in DeclaredArguments :
                call = [NoCall EXCEPT !.fn = "Arguments::new", !.args = args,
                                      !.meta_args = meta_args]

Next ==
    \/ \E type \in RootTypes : Resolve(type)
    \/ \E selection \in Selections, directives \in WalkDirectives :
          DirectiveCheck(selection, directives)
    \/ \E alias \in Aliases, directives \in WalkDirectives :
          TypenameField(alias, directives)
    \/ \E name \in FieldNames, directives \in WalkDirectives :
          UnknownField(name, directives)
    \/ \E name \in FieldNames, alias \in Aliases, directives \in WalkDirectives,
          out \in FieldAnswers :
          FieldSelection(name, alias, directives, out)
    \/ \E fragment_name \in SpreadNames, directives \in WalkDirectives,
          into \in IntoAnswers :
          FragmentSpread(fragment_name, directives, into)
    \/ \E type_condition \in TypeConditions, directives \in WalkDirectives,
          into \in IntoAnswers :
          InlineFragment(type_condition, directives, into)
    \/ EndOfSelectionSet
    \/ CallIsExcluded
    \/ CallArgumentsNew

Spec == Init /\ [][Next]_vars


\* ================================================================== claims
\* The entry of response name k in a result object, and the object's keys.
HasKey(result, k) == contains_key(result, k)
ValueOf(result, k) == get(result, k)
Keys(result) == [i \in DOMAIN result |-> result[i].k]
KeySet(result) == {result[i].k : i \in DOMAIN result}

\* The step just taken processed a selection (the walk advanced).
Advanced == pos' = pos + 1

\* A declared non-null field's resolver just answered Ok(Null) or Err.
NonNullFailure ==
    /\ status # "panicked"
    /\ last.op = "field"
    /\ last.name \in MetaFields
    /\ is_non_null(last.name)
    /\ last.out \in {"null", "err"}

\* C1: when a non-excluded non-null field, listed directly in a selection set
\* or reached through inline fragments without type condition, answers
\* Ok(Null) or Err, every resolve_selection_set_into from the field's set up
\* to the one GraphQLValue::resolve called returns false, and that resolve
\* returns Ok(Null), not an Object.
C1_NonNullFailureNullsTheSet ==
    NonNullFailure =>
        \E n \in DOMAIN last.rets :
            /\ \A i \in 1..(n - 1) :
                  last.rets[i].kind = "inline" /\ last.rets[i].ret = "false"
            /\ last.rets[n].kind # "inline"
            /\ last.rets[n].ret = "false"
            /\ last.rets[n].value = "null"

\* C1's case, with the field inside an inline fragment without condition.
C1_Witness ==
    /\ NonNullFailure
    /\ Len(last.rets) >= 2
    /\ last.rets[1].kind = "inline"
    /\ last.rets[2].kind = "root"
    /\ final = Null

\* C2: a non-null failure anywhere in a nested query nulls every enclosing
\* object behind a non-null field and stops at the nearest enclosing nullable
\* field (or the root): the last call that returned is the resolve of that
\* field's object (or of the root), it returned Null, the field's key holds
\* Null in the parent's result, the parent is still being resolved into an
\* object, and the parent's other keys keep their values.
C2_PropagatesToNearestNullable ==
    [][ (Advanced /\ NonNullFailure') =>
          LET rets == last'.rets
              r == rets[Len(rets)]
          IN  /\ rets # <<>>
              /\ r.value = "null"
              /\ r.kind = "root" \/ (r.kind = "field" /\ ~r.non_null)
              /\ \A i \in 1..(Len(rets) - 1) :
                    rets[i].kind = "field" => rets[i].non_null
              /\ r.kind = "field" =>
                    /\ status' = "walking"
                    /\ LET parent == stack'[Len(stack')].result
                           before == stack[Len(stack')].result
                       IN  /\ HasKey(parent, r.response_name)
                           /\ ValueOf(parent, r.response_name) = Null
                           /\ \A k \in KeySet(before) \ {r.response_name} :
                                 /\ HasKey(parent, k)
                                 /\ ValueOf(parent, k) = ValueOf(before, k)
      ]_vars

\* C3: when the failing non-null field is reached through a fragment spread
\* or an inline fragment with a (matching) type condition, the object that
\* holds the fragment resolves to Null too: a resolve of an object (a field's
\* child or the root) returns Null in that step.
C3_FragmentFailureNullsTheObject ==
    (NonNullFailure /\ \E i \in DOMAIN last.rets : last.rets[i].kind = "typed")
        => \E j \in DOMAIN last.rets :
              /\ last.rets[j].kind \in {"root", "field"}
              /\ last.rets[j].value = "null"


\* A nullable declared field's resolver just answered Err.
NullableError ==
    /\ status = "walking"
    /\ last.op = "field"
    /\ last.name \in MetaFields
    /\ ~is_non_null(last.name)
    /\ last.out = "err"

C5_ErrorsCountFieldErrs ==
    Len(errors) = err_calls.resolve_field

\* C5, amended: a resolver call that returns Err (resolve_field, or the
\* resolve_into_type of a fragment whose type condition matches) records
\* exactly one error, at its selection's position, whatever returns false
\* because of it; a field that answers Ok(Null) records none; the number of
\* recorded errors equals the number of resolve_field and resolve_into_type
\* calls that returned Err.
C5_ErrorsCountErrCalls ==
    /\ Len(errors) = err_calls.resolve_field + err_calls.resolve_into_type
    /\ \A fn \in {"resolve_field", "resolve_into_type"} :
          Cardinality({i \in DOMAIN errors : errors[i].from = fn}) = err_calls[fn]
    /\ \A i, j \in DOMAIN errors : i < j => errors[i].pos < errors[j].pos
    /\ (status # "panicked" /\ last.out = "err") =>
          /\ errors # <<>>
          /\ errors[Len(errors)] =
                [pos |-> pos,
                 from |-> IF last.op = "field" THEN "resolve_field"
                          ELSE "resolve_into_type"]
    /\ (status # "panicked" /\ last.op = "field" /\ last.out # "err") =>
          \A i \in DOMAIN errors : errors[i].pos < pos

\* C5's case: a fragment's resolve_into_type failed, then a non-null field
\* two objects deep failed and nulled both objects: two errors in all.
C5_Witness ==
    /\ NonNullFailure
    /\ last.out = "err"
    /\ Len(last.rets) >= 2
    /\ err_calls = [resolve_field |-> 1, resolve_into_type |-> 1]
    /\ Len(errors) = 2


\* A skip or include directive carries a boolean `if` (validation's part).
Validated(directives) ==
    \A i \in DOMAIN directives :
        directives[i].name \in {"skip", "include"} =>
            directives[i].if \in {"true", "false"}

\* Some directive is skip with a true or include with a false condition.
SomeExclusion(directives) ==
    \E i \in DOMAIN directives :
        \/ directives[i].name = "skip" /\ directives[i].if = "true"
        \/ directives[i].name = "include" /\ directives[i].if = "false"

\* C6: is_excluded answers true exactly when some directive of the list is
\* skip with a true or include with a false condition, so false for
\* skip(if: false) with include(if: true); and a selection it excludes has no
\* effect: no resolver runs, the result objects, the error sink and the
\* active calls stay as they were, and nothing returns.
C6_ExcludedIffSkipOrNotInclude ==
    [][ /\ ( /\ status' = "returned"
             /\ call'.fn = "is_excluded"
             /\ Validated(call'.directives) ) =>
              call'.excluded =
                  IF SomeExclusion(call'.directives) THEN "true" ELSE "false"
        /\ (Advanced /\ last'.excluded = "true") =>
              /\ stack' = stack
              /\ errors' = errors
              /\ err_calls' = err_calls
              /\ final' = final
              /\ status' = status
              /\ last'.out = ""
              /\ last'.rets = <<>>
      ]_vars

\* directives without its i-th entry.
Without(directives, i) ==
    SubSeq(directives, 1, i - 1) \o SubSeq(directives, i + 1, Len(directives))

\* C7: a directive named neither skip nor include, whatever its `if`, leaves
\* the outcome of is_excluded what it is for the list without it (so it
\* never makes is_excluded fail).
C7_UnknownDirectiveIgnored ==
    (status = "returned" /\ call.fn = "is_excluded") =>
        \A i \in DOMAIN call.directives :
            call.directives[i].name \notin {"skip", "include"} =>
                call.excluded = is_excluded(Without(call.directives, i))

\* The type condition of the fragment selection an event is about.
ConditionOf(ev) ==
    IF ev.op = "spread" THEN FragmentTable[ev.name] ELSE ev.name

\* C8: a fragment spread or typed inline fragment whose type condition is
\* not the instance's concrete type calls neither resolve_into_type nor any
\* resolver, and leaves the result objects and the error sink unchanged; when
\* the condition matches and the fragment's selection set resolved to an
\* Object, every entry of that object is in the enclosing result object
\* itself, whose other keys keep their values.
C8_FragmentTypeCondition ==
    [][ /\ ( /\ Advanced
             /\ status' # "panicked"
             /\ last'.op \in {"spread", "inline"}
             /\ last'.excluded = "false"
             /\ ConditionOf(last') # NoCondition
             /\ ConditionOf(last') # Top.type ) =>
              /\ stack' = stack
              /\ errors' = errors
              /\ err_calls' = err_calls
              /\ last'.out = ""
              /\ last'.rets = <<>>
        /\ ( /\ status = "walking"
             /\ last'.op = "end"
             /\ stack' # stack
             /\ Top.kind = "typed" ) =>
              LET object == Top.result
                  before == stack[Len(stack) - 1].result
                  after == stack'[Len(stack')].result
              IN  /\ Len(stack') = Len(stack) - 1
                  /\ last'.rets = <<Returned(Top, "true", ObjectValue(object))>>
                  /\ \A i \in DOMAIN object :
                        /\ HasKey(after, object[i].k)
                        /\ ValueOf(after, object[i].k) = object[i].v
                  /\ \A k \in KeySet(before) \ KeySet(object) :
                        /\ HasKey(after, k)
                        /\ ValueOf(after, k) = ValueOf(before, k)
                  /\ KeySet(after) = KeySet(before) \cup KeySet(object)
      ]_vars

\* C8's case: a fragment on the instance's type resolved to an object of two
\* keys, both now in the enclosing result next to the plain field's key.
C8_Witness ==
    /\ status = "walking"
    /\ last.op = "end"
    /\ last.rets[1].kind = "typed"
    /\ Len(last.rets[1].keys) = 2
    /\ Len(Top.result) = 2
    /\ Top.kind = "root"

\* seq restricted to the elements in S, in seq's order.
Restrict(seq, S) ==
    LET InS(x) == x \in S IN SelectSeq(seq, InS)

\* C9: when resolve_selection_set_into returns true, every key of its result
\* object is the response name of a non-excluded field the walk met, no key
\* appears twice, and the keys are in the order the walk first met them.
C9_KeysInFirstMetOrder ==
    ( /\ status # "panicked"
      /\ last.op = "end"
      /\ last.rets # <<>> ) =>
        LET keys == last.rets[1].keys
            seen == last.rets[1].seen
            names == {keys[i] : i \in DOMAIN keys}
        IN  last.rets[1].ret = "true" =>
              /\ \A i, j \in DOMAIN keys : keys[i] = keys[j] => i = j
              /\ names \subseteq {seen[i] : i \in DOMAIN seen}
              /\ keys = Restrict(seen, names)

\* C10: Arguments::new with declared arguments never returns None; for each
\* declared argument with a default, the result holds the default when the
\* supplied map (absent or not) has no such key or Null under it, and the
\* supplied value otherwise; a declared argument without default, and a key
\* not declared, is in the result as it was supplied, or not at all; without
\* declared arguments the supplied arguments are returned as they are.
C10_DefaultsFilled ==
    (status = "returned" /\ call.fn = "Arguments::new") =>
        LET args == call.args
            meta_args == call.meta_args
            result == call.result
            supplied(k) == args.some /\ contains_key(args.map, k)
            kept(k) ==
                IF supplied(k)
                THEN contains_key(result.map, k)
                        /\ get(result.map, k) = get(args.map, k)
                ELSE ~contains_key(result.map, k)
        IN  IF ~meta_args.some THEN result = args
            ELSE /\ result.some
                 /\ \A i \in DOMAIN meta_args.map :
                       LET d == meta_args.map[i] IN
                       IF d.default_value = NoDefault THEN kept(d.name)
                       ELSE IF ~supplied(d.name) \/ get(args.map, d.name) = "null"
                            THEN /\ contains_key(result.map, d.name)
                                 /\ get(result.map, d.name) = d.default_value
                            ELSE kept(d.name)
                 /\ \A k \in ArgumentNames :
                       (\A i \in DOMAIN meta_args.map : meta_args.map[i].name # k)
                           => kept(k)

\* C10's case: no arguments supplied, `limit` declared with default 10 and
\* `offset` without default: the result holds limit: 10 only.
C10_Witness ==
    /\ status = "returned"
    /\ call.fn = "Arguments::new"
    /\ call.args = None
    /\ call.meta_args =
          Some(<<[name |-> "limit", default_value |-> "10"],
                 [name |-> "offset", default_value |-> NoDefault]>>)
    /\ call.result = Some(<<[k |-> "limit", v |-> "10"]>>)


\* The first directive of the list that excludes or has no boolean `if` is a
\* skip or include without a boolean `if`.
MeetsMalformed(directives) ==
    \E i \in DOMAIN directives :
        /\ directives[i].name \in {"skip", "include"}
        /\ directives[i].if \notin {"true", "false"}
        /\ \A j \in 1..(i - 1) :
              /\ directives[j].if \in {"true", "false"}
              /\ ~SomeExclusion(<<directives[j]>>)

\* The step met a contract violation: an instance whose type is not in the
\* registry, a non-excluded field without metadata, a non-excluded spread of
\* a fragment the table lacks, or directives on which is_excluded panics.
ContractViolation(ev) ==
    \/ ev.op = "resolve" /\ ev.name \notin RegisteredTypes
    \/ /\ ev.op = "field"
       /\ ev.excluded = "false"
       /\ ev.name \notin MetaFields \cup {"__typename"}
    \/ /\ ev.op = "spread"
       /\ ev.excluded = "false"
       /\ ev.name \notin DOMAIN FragmentTable
    \/ ev.excluded = "panic"

\* C11: a contract violation met during the walk aborts execution: every
\* active call is gone without returning true or false, resolve returns no
\* value, no result object is left to hold a Null for the selection, the
\* error sink is as it was, and nothing runs afterwards; and is_excluded
\* itself does not return when the first directive that decides is a skip or
\* include whose `if` is missing or not boolean.
C11_ContractViolationAborts ==
    [][ /\ status # "panicked"
        /\ (last' # last /\ ContractViolation(last')) =>
              /\ status' = "panicked"
              /\ stack' = <<>>
              /\ last'.rets = <<>>
              /\ last'.out = ""
              /\ final' = final
              /\ errors' = errors
              /\ err_calls' = err_calls
        /\ ( /\ status' = "returned"
             /\ call'.fn = "is_excluded"
             /\ MeetsMalformed(call'.directives) ) =>
              call'.excluded = "panic"
      ]_vars

\* C11's case: after a recorded error and a written key, a field without
\* metadata aborted the walk; the sink still holds the one earlier error.
C11_Witness ==
    /\ status = "panicked"
    /\ last.op = "field"
    /\ last.name = "zz"
    /\ stack = <<>>
    /\ final = NoValue
    /\ errors = <<[pos |-> 1, from |-> "resolve_field"]>>


\* after is before with v written under k: k keeps its position if before
\* has it and is appended otherwise, no key is doubled, and every other entry
\* is where and what it was.
LastWrite(before, after, k, v) ==
    /\ Keys(after) =
          IF k \in KeySet(before) THEN Keys(before) ELSE Append(Keys(before), k)
    /\ \A i, j \in DOMAIN after : after[i].k = after[j].k => i = j
    /\ \A i \in DOMAIN after : after[i].k = k => after[i].v = v
    /\ \A i \in DOMAIN before : before[i].k # k => after[i] = before[i]

\* after is before with every entry of a fragment's object written, in the
\* object's order.
ObjectWritten(before, after, object) ==
    /\ Keys(after) =
          Keys(before) \o Restrict(Keys(object), KeySet(object) \ KeySet(before))
    /\ \A i \in DOMAIN after :
          after[i].v = IF after[i].k \in KeySet(object)
                       THEN ValueOf(object, after[i].k)
                       ELSE ValueOf(before, after[i].k)

\* The value a plain field step writes under its response name.
WrittenBy(ev, type) ==
    IF ev.name = "__typename" THEN Scalar(type)
    ELSE IF ev.out \in {"null", "err"} THEN Null
    ELSE Scalar(ev.out)

\* C12: every write of a response name into a result object is last-write-
\* wins at a stable position, whether the name is new or already there: a
\* plain field's value or Null (from Ok(Null) or from a nullable field's
\* Err), a child object or the Null of a failed child behind a nullable
\* field, and each entry of a fragment's object; the result object then
\* holds the written value under the name, at the position of the name's
\* first write, and all other entries are unchanged.
C12_LastWriteWinsInPlace ==
    [][ /\ ( /\ Advanced
             /\ status' = "walking"
             /\ last'.op = "field"
             /\ last'.excluded = "false"
             /\ last'.rets = <<>>
             /\ Len(stack') = Len(stack) ) =>
              LastWrite(Top.result, Top'.result, last'.response_name,
                        WrittenBy(last', Top.type))
        /\ ( /\ status = "walking"
             /\ last'.op = "end"
             /\ stack' # stack
             /\ Top.kind = "field" ) =>
              LastWrite(stack[Len(stack) - 1].result,
                        stack'[Len(stack')].result,
                        Top.response_name, ObjectValue(Top.result))
        /\ ( /\ status = "walking"
             /\ last'.op = "end"
             /\ stack' # stack
             /\ Top.kind = "typed" ) =>
              ObjectWritten(stack[Len(stack) - 1].result,
                            stack'[Len(stack')].result, Top.result)
        /\ ( /\ Advanced
             /\ status' = "walking"
             /\ last'.rets # <<>>
             /\ last'.rets[Len(last'.rets)].kind = "field"
             /\ ~last'.rets[Len(last'.rets)].non_null ) =>
              LastWrite(stack[Len(stack')].result,
                        stack'[Len(stack')].result,
                        last'.rets[Len(last'.rets)].response_name, Null)
      ]_vars

\* C12's case: response name a was written first, __typename second, and
\* then a nullable field under response name a failed: a holds Null, still in
\* the first position.
C12_Witness ==
    /\ status = "walking"
    /\ pos = 3
    /\ Len(stack) = 1
    /\ last.op = "field"
    /\ last.out = "err"
    /\ errors = <<[pos |-> 3, from |-> "resolve_field"]>>
    /\ Top.result = <<[k |-> "a", v |-> Null],
                      [k |-> "__typename", v |-> Scalar("T")]>>


\* C13: the error sink only grows, by at most one error a step; and the
\* step in which a selection triggers the false return ends every call it
\* aborts at once: the set of the selection, the sets that hold it through
\* inline fragments without type condition, up to and including a call made
\* by resolve, are no longer active, so none of their later selections is
\* processed; the only resolver that step invoked is the failing field's,
\* the only error it may record is that field's own, the errors recorded
\* before stay in the sink, and once the root has returned nothing runs.
C13_AbortShortCircuits ==
    [][ /\ status # "done"
        /\ Len(errors') \in {Len(errors), Len(errors) + 1}
        /\ SubSeq(errors', 1, Len(errors)) = errors
        /\ (Advanced /\ last'.rets # <<>>) =>
              LET rets == last'.rets
                  n == Len(rets)
              IN  /\ last'.op = "field"
                  /\ last'.excluded = "false"
                  /\ \A i \in 1..n :
                        /\ rets[i].ret = "false"
                        /\ rets[i].kind = stack[Len(stack) - i + 1].kind
                  /\ rets[n].kind # "inline"
                  /\ Len(stack') = Len(stack) - n
                  /\ \A i \in 1..(Len(stack') - 1) : stack'[i] = stack[i]
                  /\ errors' =
                        IF last'.out = "err"
                        THEN Append(errors,
                                    [pos |-> pos', from |-> "resolve_field"])
                        ELSE errors
                  /\ err_calls'.resolve_into_type = err_calls.resolve_into_type
                  /\ err_calls'.resolve_field =
                        err_calls.resolve_field
                            + (IF last'.out = "err" THEN 1 ELSE 0)
                  /\ stack' = <<>> => (status' = "done" /\ final' = Null)
      ]_vars

\* C13's case: the first selection recorded an error, the third, inside an
\* inline fragment without type condition, aborted the fragment's set and
\* the root's: the root resolved to Null and the sink still holds the error.
C13_Witness ==
    /\ status = "done"
    /\ final = Null
    /\ pos = 3
    /\ NonNullFailure
    /\ last.out = "null"
    /\ Len(last.rets) = 2
    /\ last.rets[1].kind = "inline"
    /\ errors = <<[pos |-> 1, from |-> "resolve_field"]>>

====
